---- MODULE Spec2Model ----
(***************************************************************************)
(* Model of tasks/codesearch.py: compute_ranks (rank of the true match in  *)
(* a pairwise distance matrix) and test (the MRR evaluation driver).       *)
(*                                                                         *)
(* Embedding rows are small integer vectors.  A distance is kept as an     *)
(* exact key [nan, num, den] that is order-isomorphic to the float the     *)
(* library returns: for cityblock the key is the distance itself, for      *)
(* cosine (1 - u.v/(|u||v|)) it is minus the signed square of the cosine,  *)
(* which grows exactly when the distance grows.  A zero-norm row makes the *)
(* cosine 0/0, which is NaN; NaN compares false with everything, itself    *)
(* included.                                                               *)
(***************************************************************************)
EXTENDS Integers, Sequences, FiniteSets, TLC

\* ------------------------------------------------------------------ bounds
MaxRows == 2
MaxCols == 2
MaxItems == 4
MaxTestBatch == 3
MaxTrainBatch == 2

\* coordinates of an embedding row
Coord == {0, 1}
Metrics == {"cosine", "cityblock"}

None == "None"

\* ------------------------------------------------------------- arithmetic
Abs(x) == IF x < 0 THEN -x ELSE x

Min(a, b) == IF a < b THEN a ELSE b

RECURSIVE SumTo(_, _)
\* sum of f[1..n]
SumTo(f, n) == IF n = 0 THEN 0 ELSE f[n] + SumTo(f, n - 1)

RECURSIVE Gcd(_, _)
Gcd(a, b) == IF b = 0 THEN a ELSE Gcd(b, a % b)

RECURSIVE LcmTo(_)
\* lcm(1..n): a common denominator of 1/1 .. 1/n
LcmTo(n) == IF n <= 1 THEN 1 ELSE (LcmTo(n - 1) * n) \div Gcd(LcmTo(n - 1), n)

\* ------------------------------------------------ scipy cdist and metrics
NaN == [nan |-> TRUE, num |-> 0, den |-> 1]

Dot(u, v) == SumTo([k \in 1..Len(u) |-> u[k] * v[k]], Len(u))

\* cosine distance 1 - u.v / (|u| |v|); 0/0 is NaN
Cosine(u, v) ==
    IF Dot(u, u) = 0 \/ Dot(v, v) = 0
    THEN NaN
    ELSE [nan |-> FALSE,
          num |-> -(Dot(u, v) * Abs(Dot(u, v))),
          den |-> Dot(u, u) * Dot(v, v)]

Cityblock(u, v) ==
    [nan |-> FALSE,
     num |-> SumTo([k \in 1..Len(u) |-> Abs(u[k] - v[k])], Len(u)),
     den |-> 1]

Distance(u, v, metric) ==
    IF metric = "cosine" THEN Cosine(u, v) ELSE Cityblock(u, v)

\* a < b in place of a <= b
LessStrict(a, b) == ~a.nan /\ ~b.nan /\ a.num * b.den < b.num * a.den

\* IEEE comparison a <= b of two distances
LessEqual(a, b) == ~a.nan /\ ~b.nan /\ a.num * b.den <= b.num * a.den

NumCols(X) == Len(X[1])

\* cdist raises ValueError when XA and XB differ in their number of columns
CdistRaises(XA, XB) == NumCols(XA) # NumCols(XB)

\* cdist(XA, XB, metric): the Len(XA) x Len(XB) matrix of pairwise distances
Cdist(XA, XB, metric) ==
    [i \in 1..Len(XA) |-> [j \in 1..Len(XB) |-> Distance(XA[i], XB[j], metric)]]

\* np.diag of a 2-D array: the min(rows, cols) entries of the main diagonal
Diag(distances) ==
    [k \in 1..Min(Len(distances), Len(distances[1])) |-> distances[k][k]]

\* np.expand_dims(v, axis=-1): a column, one entry per row
ExpandDims(v) == [k \in 1..Len(v) |-> <<v[k]>>]

\* numpy broadcasting of an (M, N) array against a (K, 1) column raises
\* ValueError unless K is M or one of the two is 1
BroadcastRaises(distances, correct_elements) ==
    /\ Len(correct_elements) # Len(distances)
    /\ Len(correct_elements) # 1
    /\ Len(distances) # 1

\* distances <= correct_elements, the (K, 1) column stretched over the rows
BroadcastLessEqual(distances, correct_elements) ==
    LET M == Len(distances)
        N == Len(distances[1])
        K == Len(correct_elements)
        R == IF M = 1 THEN K ELSE M
    IN  [i \in 1..R |-> [j \in 1..N |->
            LessEqual(distances[IF M = 1 THEN 1 ELSE i][j],
                      correct_elements[IF K = 1 THEN 1 ELSE i][1])]]

\* np.sum(mask, axis=-1): the number of True entries of each row
SumLastAxis(mask) ==
    [i \in 1..Len(mask) |->
        SumTo([j \in 1..Len(mask[i]) |-> IF mask[i][j] THEN 1 ELSE 0], Len(mask[i]))]

\* compute_ranks: the returned pair, or the exception raised
compute_ranks(src_representations, tgt_representations, metric) ==
    IF CdistRaises(src_representations, tgt_representations)
    THEN [raised |-> "ValueError"]
    ELSE LET distances == Cdist(src_representations, tgt_representations, metric)
             correct_elements == ExpandDims(Diag(distances))
         IN  IF BroadcastRaises(distances, correct_elements)
             THEN [raised |-> "ValueError"]
             ELSE [raised |-> None,
                   ranks |-> SumLastAxis(BroadcastLessEqual(distances, correct_elements)),
                   distances |-> distances]

\* ------------------------------------------ floats of the MRR aggregation
\* A float is [inf, num, den]: +inf, or the exact fraction num/den in lowest
\* terms
Norm(x) ==
    IF x.inf
    THEN [inf |-> TRUE, num |-> 0, den |-> 1]
    ELSE [inf |-> FALSE,
          num |-> x.num \div Gcd(x.num, x.den),
          den |-> x.den \div Gcd(x.num, x.den)]

Zero == [inf |-> FALSE, num |-> 0, den |-> 1]

\* np.mean(1.0 / ranks): numpy's 1.0 / 0 is inf
MeanReciprocal(ranks) ==
    LET n == Len(ranks)
        L == LcmTo(n)
    IN  IF \E i \in 1..n : ranks[i] = 0
        THEN Norm([inf |-> TRUE, num |-> 0, den |-> 1])
        ELSE Norm([inf |-> FALSE,
                   num |-> SumTo([i \in 1..n |-> L \div ranks[i]], n),
                   den |-> L * n])

\* sum_mrr = x in place of sum_mrr += x
Overwrite(sum, x) == Norm(x)

\* sum_mrr += x
Accumulate(sum, x) ==
    Norm([inf |-> sum.inf \/ x.inf,
          num |-> sum.num * x.den + x.num * sum.den,
          den |-> sum.den * x.den])

\* a mean that is guarded against num_batches = 0
FinalMeanOrZero(sum, n) ==
    IF n = 0
    THEN [raised |-> None, value |-> [inf |-> FALSE, num |-> 0, den |-> 1]]
    ELSE [raised |-> None,
          value |-> Norm([inf |-> sum.inf, num |-> sum.num, den |-> sum.den * n])]

\* mrr = sum_mrr / num_batches: ZeroDivisionError when num_batches is 0
\* (sum_mrr is then still the Python float 0.0), else the quotient
FinalMean(sum, n) ==
    IF n = 0
    THEN [raised |-> "ZeroDivisionError"]
    ELSE [raised |-> None,
          value |-> Norm([inf |-> sum.inf, num |-> sum.num, den |-> sum.den * n])]

\* round(mrr, 4), in ten-thousandths, ties to even
Round4(x) ==
    IF x.inf
    THEN [inf |-> TRUE, tenthousandths |-> 0]
    ELSE LET q == (x.num * 10000) \div x.den
             r == (x.num * 10000) % x.den
         IN  [inf |-> FALSE,
              tenthousandths |->
                  IF 2 * r < x.den THEN q
                  ELSE IF 2 * r > x.den THEN q + 1
                  ELSE IF q % 2 = 0 THEN q ELSE q + 1]

\* ----------------------------------------------------- the driver's parts
\* tokenized inputs; the model's pooled output for each
CodeTokens == {1, 2}
QueryTokens == {0, 1, 2}

\* model(inputs)[1]: one pooled row per input row
PooledOutput(token) ==
    IF token = 0 THEN <<0, 0>> ELSE IF token = 1 THEN <<1, 0>> ELSE <<0, 1>>

\* model(mini_batch)[1] on a sub-batch: row k is the output for input row k
Encode(inputs) == [k \in 1..Len(inputs) |-> PooledOutput(inputs[k])]

\* more_itertools.chunked(data, n): the next n items from position pos, fewer
\* when the data ends first, none when it is used up
Chunked(seq, pos, n) == SubSeq(seq, pos + 1, Min(pos + n, Len(seq)))

\* a loader with drop_last=True: a sub-batch of fewer than n rows is dropped
LoaderBatchDropLast(rows, at, n) ==
    IF at + n <= Len(rows) THEN SubSeq(rows, at + 1, at + n) ELSE <<>>

\* DataLoader(dataset, batch_size=n) without drop_last: the next n rows, the
\* last sub-batch smaller when n does not divide the rows
LoaderBatch(rows, at, n) == SubSeq(rows, at + 1, Min(at + n, Len(rows)))

\* a test that lets an undersized batch through
UndersizedOnlyIfEmpty(batch, test_batch_size) == Len(batch) < 1

\* the break at the undersized last batch
Undersized(batch, test_batch_size) == Len(batch) < test_batch_size

RECURSIVE Concatenate(_)
\* np.concatenate(arrays, axis=0)
Concatenate(arrays) ==
    IF arrays = <<>> THEN <<>> ELSE Head(arrays) \o Concatenate(Tail(arrays))

Items == [code : CodeTokens, query : QueryTokens]

RECURSIVE SeqsUpTo(_, _)
\* sequences over S of length at most n
SeqsUpTo(S, n) ==
    IF n = 0 THEN {<<>>}
    ELSE SeqsUpTo(S, n - 1)
         \cup {Append(q, x) : q \in {t \in SeqsUpTo(S, n - 1) : Len(t) = n - 1}, x \in S}

\* ------------------------------------------------------------------ state
VARIABLES
    src, tgt, distance_metric, ret,
    data, test_batch_size, train_batch_size,
    pos, batch_data, mini_pos,
    code_representations, query_representations,
    num_batches, sum_mrr, mrr, logged, failure, pc, history

rank_vars == <<src, tgt, distance_metric, ret>>

test_vars == <<data, test_batch_size, train_batch_size, pos, batch_data, mini_pos,
               code_representations, query_representations,
               num_batches, sum_mrr, mrr, logged, failure, pc, history>>

vars == <<rank_vars, test_vars>>

NotCalled == [raised |-> "NotCalled"]

\* mrr and the logged value before line 98 is reached
Unset == [unset |-> TRUE]

\* ------------------------------------------------------- compute_ranks run
Matrices(cols) ==
    UNION {[1..r -> [1..cols -> Coord]] : r \in 1..MaxRows}

InitTestIdle ==
    /\ data = <<>>
    /\ test_batch_size = 1
    /\ train_batch_size = 1
    /\ pos = 0
    /\ batch_data = <<>>
    /\ mini_pos = 0
    /\ code_representations = <<>>
    /\ query_representations = <<>>
    /\ num_batches = 0
    /\ sum_mrr = Zero
    /\ mrr = Unset
    /\ logged = Unset
    /\ failure = None
    /\ pc = "idle"
    /\ history = <<>>

InitRanks ==
    /\ \E cs \in 1..MaxCols, ct \in 1..MaxCols :
           /\ src \in Matrices(cs)
           /\ tgt \in Matrices(ct)
    /\ distance_metric \in Metrics
    /\ ret = NotCalled
    /\ InitTestIdle

\* a call compute_ranks(src, tgt, distance_metric)
CallComputeRanks ==
    /\ pc = "idle"
    /\ ret = NotCalled
    /\ ret' = compute_ranks(src, tgt, distance_metric)
    /\ UNCHANGED <<src, tgt, distance_metric, test_vars>>

NextRanks == CallComputeRanks

SpecRanks == InitRanks /\ [][NextRanks]_vars

\* ------------------------------------------- properties of compute_ranks
\* comparisons of two distances as numbers (a NaN is no number)
AtMost(a, b) == ~a.nan /\ ~b.nan /\ a.num * b.den <= b.num * a.den

Below(a, b) == ~a.nan /\ ~b.nan /\ a.num * b.den < b.num * a.den

Same(a, b) == ~a.nan /\ ~b.nan /\ a.num * b.den = b.num * a.den

\* distance(src_i, tgt_j) of the call
D(i, j) == Distance(src[i], tgt[j], distance_metric)

Called == ret # NotCalled

\* the call had two N-row inputs with equally many columns
SquareCall == Called /\ Len(src) = Len(tgt) /\ NumCols(src) = NumCols(tgt)

\* the columns of row i that are at most as far as the true match
AtLeastAsClose(i) == {j \in 1..Len(tgt) : AtMost(D(i, j), D(i, i))}

\* C1: on two N-row inputs compute_ranks returns N ranks, ranks[i] is the
\* number of columns j with distance(src_i, tgt_j) <= distance(src_i, tgt_i),
\* and the diagonal column i is among the columns counted.
C1_RankIsInclusiveCount ==
    SquareCall =>
        /\ ret.raised = None
        /\ Len(ret.ranks) = Len(src)
        /\ \A i \in 1..Len(src) :
               /\ ret.ranks[i] = Cardinality(AtLeastAsClose(i))
               /\ i \in AtLeastAsClose(i)

\* ranks[i] is the inclusive count in every call that returns, and the
\* diagonal column is counted whenever the self-distance is a number
RankCountOfNumbers ==
    SquareCall =>
        /\ ret.raised = None
        /\ \A i \in 1..Len(src) :
               /\ ret.ranks[i] = Cardinality(AtLeastAsClose(i))
               /\ ~D(i, i).nan => i \in AtLeastAsClose(i)
               /\ ~D(i, i).nan => (ret.ranks[i] >= 1 /\ ret.ranks[i] <= Len(src))

\* C2: every rank of an N x N distance matrix lies in [1, N].
C2_RanksInRange ==
    SquareCall =>
        /\ ret.raised = None
        /\ \A i \in 1..Len(src) : ret.ranks[i] >= 1 /\ ret.ranks[i] <= Len(src)

\* C3: a call with unequal row counts or unequal column counts raises.
C3_MismatchRaises ==
    (Called /\ (Len(src) # Len(tgt) \/ NumCols(src) # NumCols(tgt)))
        => ret.raised # None

\* every distance between two different rows has one common value
PairwiseEquidistant ==
    \A i, j, k, l \in 1..Len(src) : (i # j /\ k # l) => Same(D(i, j), D(k, l))

\* C4 as stated, for the N >= 2 where two different rows exist: identical src
\* and tgt with pairwise equidistant rows give ranks all equal to N.
C4_EquidistantRanksN ==
    (SquareCall /\ Len(src) >= 2 /\ src = tgt /\ PairwiseEquidistant) =>
        /\ ret.raised = None
        /\ \A i \in 1..Len(src) : ret.ranks[i] = Len(src)

\* every distance between two rows, a row and itself included, is one number
AllDistancesSame ==
    \A i, j \in 1..Len(src) : Same(D(i, j), D(1, 1))

\* C4 amended: identical src and tgt in which every distance between two
\* rows, a row and itself included, is the same number give ranks all equal
\* to N.
C4_AllSameRanksN ==
    (SquareCall /\ src = tgt /\ AllDistancesSame) =>
        /\ ret.raised = None
        /\ \A i \in 1..Len(src) : ret.ranks[i] = Len(src)

C4_Witness ==
    /\ SquareCall /\ src = tgt /\ AllDistancesSame
    /\ Len(src) = 2
    /\ ret.raised = None
    /\ ret.ranks = <<2, 2>>

\* the diagonal entry of every row is strictly smaller than the row's others
DiagonalStrictlyMinimal ==
    \A i, j \in 1..Len(src) : i # j => Below(D(i, i), D(i, j))

\* a diagonal of numbers that is strictly minimal in every row gives ranks 1
StrictDiagonalOfNumbersRanksOne ==
    (SquareCall /\ DiagonalStrictlyMinimal /\ \A i \in 1..Len(src) : ~D(i, i).nan) =>
        /\ ret.raised = None
        /\ \A i \in 1..Len(src) : ret.ranks[i] = 1

\* C5: a distance matrix whose diagonal is strictly minimal in every row
\* gives ranks all equal to 1.
C5_StrictDiagonalRanksOne ==
    (SquareCall /\ DiagonalStrictlyMinimal) =>
        /\ ret.raised = None
        /\ \A i \in 1..Len(src) : ret.ranks[i] = 1

\* ------------------------------------------------------------ the test run
Init ==
    /\ data \in SeqsUpTo(Items, MaxItems)
    /\ test_batch_size \in 1..MaxTestBatch
    /\ train_batch_size \in 1..MaxTrainBatch
    /\ pos = 0
    /\ batch_data = <<>>
    /\ mini_pos = 0
    /\ code_representations = <<>>
    /\ query_representations = <<>>
    /\ num_batches = 0
    /\ sum_mrr = Zero
    /\ mrr = Unset
    /\ logged = Unset
    /\ failure = None
    /\ pc = "iterate"
    /\ history = <<>>
    /\ src = <<>>
    /\ tgt = <<>>
    /\ distance_metric = "cosine"
    /\ ret = NotCalled

\* lines 70-79: the for loop takes the next chunk; an undersized chunk breaks
\* the loop, a full one is counted and its sub-batch loader is set up
NextBatch ==
    /\ pc = "iterate"
    /\ LET chunk == Chunked(data, pos, test_batch_size)
       IN  IF chunk = <<>>
           THEN /\ pc' = "mean"
                /\ UNCHANGED <<pos, batch_data, num_batches, mini_pos,
                               code_representations, query_representations>>
           ELSE /\ pos' = pos + Len(chunk)
                /\ batch_data' = chunk
                /\ IF Undersized(chunk, test_batch_size)
                   THEN /\ pc' = "mean"
                        /\ UNCHANGED <<num_batches, mini_pos,
                                       code_representations, query_representations>>
                   ELSE /\ num_batches' = num_batches + 1
                        /\ mini_pos' = 0
                        /\ code_representations' = <<>>
                        /\ query_representations' = <<>>
                        /\ pc' = "minibatch"
    /\ UNCHANGED <<data, test_batch_size, train_batch_size, sum_mrr, mrr, logged,
                   failure, history, rank_vars>>

\* lines 81-89: one sub-batch through the model, its outputs appended
MiniBatch ==
    /\ pc = "minibatch"
    /\ LET mini_batch == LoaderBatch(batch_data, mini_pos, train_batch_size)
       IN  IF mini_batch = <<>>
           THEN /\ pc' = "rank"
                /\ UNCHANGED <<mini_pos, code_representations, query_representations>>
           ELSE /\ code_representations' =
                       Append(code_representations,
                              Encode([k \in 1..Len(mini_batch) |-> mini_batch[k].code]))
                /\ query_representations' =
                       Append(query_representations,
                              Encode([k \in 1..Len(mini_batch) |-> mini_batch[k].query]))
                /\ mini_pos' = mini_pos + Len(mini_batch)
                /\ pc' = IF mini_pos' >= Len(batch_data) THEN "rank" ELSE "minibatch"
    /\ UNCHANGED <<data, test_batch_size, train_batch_size, pos, batch_data,
                   num_batches, sum_mrr, mrr, logged, failure, history, rank_vars>>

\* lines 91-96: concatenate, assert the row counts, rank, add the batch's
\* mean reciprocal rank
Rank ==
    /\ pc = "rank"
    /\ code_representations' = Concatenate(code_representations)
    /\ query_representations' = Concatenate(query_representations)
    /\ IF ~(/\ Len(code_representations') = Len(query_representations')
            /\ Len(query_representations') = test_batch_size)
       THEN /\ failure' = "AssertionError"
            /\ pc' = "failed"
            /\ UNCHANGED <<sum_mrr, history, rank_vars>>
       ELSE /\ src' = code_representations'
            /\ tgt' = query_representations'
            /\ distance_metric' = "cosine"
            /\ ret' = compute_ranks(src', tgt', "cosine")
            /\ IF ret'.raised # None
               THEN /\ failure' = ret'.raised
                    /\ pc' = "failed"
                    /\ UNCHANGED <<sum_mrr, history>>
               ELSE /\ sum_mrr' = Accumulate(sum_mrr, MeanReciprocal(ret'.ranks))
                    /\ history' = Append(history,
                                         [items |-> batch_data, ranks |-> ret'.ranks])
                    /\ pc' = "iterate"
                    /\ UNCHANGED failure
    /\ UNCHANGED <<data, test_batch_size, train_batch_size, pos, batch_data,
                   mini_pos, num_batches, mrr, logged>>

\* lines 98-99: the grand mean, logged to four decimals
Mean ==
    /\ pc = "mean"
    /\ LET quotient == FinalMean(sum_mrr, num_batches)
       IN  IF quotient.raised # None
           THEN /\ failure' = quotient.raised
                /\ pc' = "failed"
                /\ UNCHANGED <<mrr, logged>>
           ELSE /\ mrr' = quotient.value
                /\ logged' = Round4(quotient.value)
                /\ pc' = "done"
                /\ UNCHANGED failure
    /\ UNCHANGED <<data, test_batch_size, train_batch_size, pos, batch_data,
                   mini_pos, code_representations, query_representations,
                   num_batches, sum_mrr, history, rank_vars>>

Next == NextBatch \/ MiniBatch \/ Rank \/ Mean

Spec == Init /\ [][Next]_vars

\* ----------------------------------------------------- properties of test
Terminal == pc \in {"done", "failed"}

InBatch == pc \in {"minibatch", "rank"}

RECURSIVE Factorial(_)
Factorial(n) == IF n <= 1 THEN 1 ELSE n * Factorial(n - 1)

HasZeroRank == \E k \in 1..Len(history) : \E i \in 1..Len(history[k].ranks) :
                   history[k].ranks[i] = 0

\* test_batch_size! times the sum of 1/rank over all items of scored batch k
ReciprocalSum(k) ==
    SumTo([i \in 1..Len(history[k].ranks) |->
               Factorial(test_batch_size) \div history[k].ranks[i]],
          Len(history[k].ranks))

\* test_batch_size! times test_batch_size times the sum of the scored
\* batches' means of 1/rank
HistorySum == SumTo([k \in 1..Len(history) |-> ReciprocalSum(k)], Len(history))

\* sum_mrr is the sum of the scored batches' means
SumIsHistorySum ==
    IF HasZeroRank
    THEN sum_mrr.inf
    ELSE /\ ~sum_mrr.inf
         /\ sum_mrr.num * test_batch_size * Factorial(test_batch_size)
                = sum_mrr.den * HistorySum

\* C6: the scored batches are the consecutive full chunks of the data, in
\* order; a run scores exactly floor(M/B) batches, and the undersized last
\* chunk adds nothing to num_batches or sum_mrr.
C6_FullBatchesInSequence ==
    /\ \A k \in 1..Len(history) :
           /\ Len(history[k].items) = test_batch_size
           /\ k * test_batch_size <= Len(data)
           /\ \A i \in 1..test_batch_size :
                  history[k].items[i] = data[(k - 1) * test_batch_size + i]
    /\ num_batches = Len(history) + (IF InBatch THEN 1 ELSE 0)
    /\ (pc = "mean" \/ Terminal) =>
           /\ num_batches = Len(data) \div test_batch_size
           /\ Len(data) - test_batch_size * Len(history) = Len(data) % test_batch_size
           /\ SumIsHistorySum

C6_Witness ==
    /\ pc = "done"
    /\ Len(data) = 4
    /\ test_batch_size = 3
    /\ pos = 4
    /\ Len(batch_data) = 1
    /\ num_batches = 1

\* C7: a run that completes no batch ends in ZeroDivisionError and logs no
\* MRR; a dataset smaller than test_batch_size completes no batch.
C7_NoBatchRaises ==
    /\ (Terminal /\ Len(data) < test_batch_size) => num_batches = 0
    /\ (Terminal /\ num_batches = 0) =>
           /\ pc = "failed"
           /\ failure = "ZeroDivisionError"
           /\ mrr = Unset
           /\ logged = Unset

C7_Witness ==
    /\ pc = "failed"
    /\ failure = "ZeroDivisionError"
    /\ Len(data) = 2
    /\ test_batch_size = 3
    /\ pos = 2

\* C8: the MRR of a finished run is the sum of the scored batches' means of
\* 1/rank divided by the number of scored batches, each batch once; the
\* value logged is that number to four decimals.
C8_MrrIsGrandMean ==
    pc = "done" =>
        /\ num_batches >= 1
        /\ Len(history) = num_batches
        /\ \A k \in 1..Len(history) : Len(history[k].ranks) = test_batch_size
        /\ IF HasZeroRank
           THEN mrr.inf /\ logged.inf
           ELSE /\ ~mrr.inf
                /\ mrr.num * test_batch_size * Factorial(test_batch_size) * num_batches
                       = mrr.den * HistorySum
                /\ ~logged.inf
                /\ 2 * Abs(10000 * mrr.num - logged.tenthousandths * mrr.den) <= mrr.den

C8_Witness ==
    /\ pc = "done"
    /\ test_batch_size = 2
    /\ num_batches = 2
    /\ history[1].ranks = <<1, 1>>
    /\ history[2].ranks = <<2, 2>>
    /\ mrr = [inf |-> FALSE, num |-> 3, den |-> 4]
    /\ logged = [inf |-> FALSE, tenthousandths |-> 7500]

\* C9: for every sub-batch size the concatenated code rows and query rows of
\* a batch number test_batch_size, stand in the batch's item order, row i of
\* the codes beside row i of the queries, and the assertion never fails.
C9_RowsPairedInOrder ==
    /\ failure # "AssertionError"
    /\ pc = "rank" =>
           /\ Len(Concatenate(code_representations)) = test_batch_size
           /\ Len(Concatenate(query_representations)) = test_batch_size
    /\ (Len(history) > 0 /\ ~InBatch) =>
           LET items == history[Len(history)].items
           IN  /\ Len(code_representations) = test_batch_size
               /\ Len(query_representations) = test_batch_size
               /\ \A i \in 1..test_batch_size :
                      /\ code_representations[i] = PooledOutput(items[i].code)
                      /\ query_representations[i] = PooledOutput(items[i].query)
               /\ src = code_representations
               /\ tgt = query_representations

C9_Witness ==
    /\ pc = "iterate"
    /\ test_batch_size = 3
    /\ train_batch_size = 2
    /\ Len(history) = 1
    /\ code_representations = << <<1, 0>>, <<0, 1>>, <<1, 0>> >>
    /\ query_representations = << <<0, 1>>, <<0, 0>>, <<1, 0>> >>

\* C10: after k scored batches every batch's mean of 1/rank lies in
\* [1/B, 1] and sum_mrr in [k/B, k]; the MRR of a finished run lies in
\* [1/B, 1] and is 1 exactly when every rank is 1.
C10_MrrInUnitRange ==
    /\ \A k \in 1..Len(history) :
           LET m == MeanReciprocal(history[k].ranks)
           IN  ~m.inf /\ m.den <= test_batch_size * m.num /\ m.num <= m.den
    /\ ~sum_mrr.inf
    /\ Len(history) * sum_mrr.den <= test_batch_size * sum_mrr.num
    /\ sum_mrr.num <= Len(history) * sum_mrr.den
    /\ pc = "done" =>
           /\ ~mrr.inf
           /\ mrr.den <= test_batch_size * mrr.num
           /\ mrr.num <= mrr.den
           /\ (mrr.num = mrr.den) <=>
                  (\A k \in 1..Len(history) : \A i \in 1..Len(history[k].ranks) :
                       history[k].ranks[i] = 1)

\* the bounds of C10 hold in every run whose ranks are all at least 1
UnitRangeWithoutZeroRank == HasZeroRank \/ C10_MrrInUnitRange
====
